---- MODULE Spec2Model ----
(***************************************************************************)
(* Model of src/platform/ssl/itls/HAL_TLS_itls.c: the iTLS HAL adapter.    *)
(*                                                                         *)
(* One caller drives the four entry points HAL_iTLS_Establish, _Read,      *)
(* _Write and _Destroy, one call at a time (the file has no locking and    *)
(* the caller must not overlap calls).  A call is modelled step by step:   *)
(* pc is the position inside the running call, and every call of the       *)
(* wrapped library (mbedtls_*, socket, connect, ...) is one step whose     *)
(* result is chosen by the environment.  The library calls of the running  *)
(* call are recorded, in order, in log.                                    *)
(*                                                                         *)
(* The file-static timevals tv1 and tv2 (lines 60-64) are written before   *)
(* they are read in every call and feed only a log line; they are not      *)
(* part of the model.  The build modelled is the _PLATFORM_IS_LINUX_ one.  *)
(***************************************************************************)
EXTENDS Integers, Sequences, FiniteSets

(* ------------------------------ bounds --------------------------------- *)
\* TLSDataParams_t objects the allocator can hand out at the same time.
NumHandles == 2
\* Descriptors of the process's descriptor table.
MaxFd == 2
\* Longest address list getaddrinfo returns.
NumAddrs == 2
\* WANT_READ / WANT_WRITE answers the library gives during one handshake.
MaxWant == 1
\* Largest len a caller passes to read / write.
MaxLen == 2
\* Most bytes the library moves in one mbedtls_ssl_read / _write.
MaxChunk == 2
\* Most bytes moved in a call whose len is negative (the bound of the loop
\* is then 2^32 + len, far beyond what is explored).
MaxRun == 1

(* --------------------------- program constants ------------------------- *)
SEND_TIMEOUT_SECONDS == 10
MBEDTLS_ERR_NET_SOCKET_FAILED == -66
MBEDTLS_ERR_NET_CONNECT_FAILED == -68
MBEDTLS_ERR_NET_UNKNOWN_HOST == -82
MBEDTLS_ERR_SSL_WANT_READ == -26880
MBEDTLS_ERR_SSL_WANT_WRITE == -26752
MBEDTLS_ERR_SSL_PEER_CLOSE_NOTIFY == -30848
MBEDTLS_ERR_SSL_TIMEOUT == -26624
MBEDTLS_ERR_SSL_CONN_EOF == -29312
MBEDTLS_ERR_SSL_SESSION_TICKET_EXPIRED == -28032
MBEDTLS_ERR_SSL_NON_FATAL == -26240
MBEDTLS_SSL_MAJOR_VERSION_3 == 3
MBEDTLS_SSL_MINOR_VERSION_3 == 3

\* (uintptr_t)NULL
NULL == 0

(* ----------------------------- environment ----------------------------- *)
\* Addresses HAL_Malloc can return.
Handles == 1..NumHandles
Fds == 1..MaxFd
\* timeout_ms values a caller passes.
TimeoutSet == {0, 5000}
\* len values a caller passes (len is a signed int).
LenSet == -1..MaxLen
\* Failure codes of the library that the file does not name.
OtherErrs == {-76, -28928}
\* A failure code of the configuration calls and of the handshake.
SetupErrs == {-28928}
\* Failure codes mbedtls_ssl_read can answer besides the ones the file names.
ReadErrs == OtherErrs \cup {MBEDTLS_ERR_SSL_WANT_READ}
\* Failure codes mbedtls_ssl_write can answer.
WriteErrs == OtherErrs \cup {MBEDTLS_ERR_SSL_WANT_WRITE}

Min(a, b) == IF a < b THEN a ELSE b

VARIABLES
    pc,          \* position of the running call; "idle" between calls
    op,          \* entry point running or just returned
    result,      \* value the entry point returned (pc = "ret")
    mem,         \* mem[p]: whether HAL_Malloc has handed out p
    data,        \* data[p]: the TLSDataParams_t at p
    socks,       \* socks[fd]: the descriptor table and each connection's peer
    net_status,  \* static int net_status of _network_ssl_read
    h,           \* pTlsData / handle of the running call
    len,         \* argument len
    timeout_ms,  \* argument timeout_ms
    ret,         \* local ret
    readLen,     \* local readLen of _network_ssl_read
    writtenLen,  \* local writtenLen of _network_ssl_write
    naddr,       \* length of addr_list
    cur,         \* index of cur in addr_list
    nwant,       \* WANT_READ / WANT_WRITE answers of this handshake so far
    log          \* library calls of the running call, in order

vars == <<pc, op, result, mem, data, socks, net_status, h, len, timeout_ms,
          ret, readLen, writtenLen, naddr, cur, nwant, log>>

locals == <<len, timeout_ms, readLen, writtenLen, naddr, cur, nwant>>

(* --------------------------- data structures --------------------------- *)
\* A TLSDataParams_t after memset(pTlsData, 0x0, sizeof(TLSDataParams_t)).
\* ssl and conf hold the state of the library's contexts; min_ver, max_ver,
\* rng, dbg and auth are fields of conf; bio is the callback set of ssl.
\* The timeouts the library and the socket are given (read timeout,
\* SO_SNDTIMEO) are values of the environment, which answers every call as
\* it likes: they appear in log, as arguments of the calls that set them.
ZeroData ==
    [ssl |-> "zero", fd |-> 0, conf |-> "zero",
     min_ver |-> <<0, 0>>, max_ver |-> <<0, 0>>, rng |-> FALSE, dbg |-> FALSE,
     auth |-> FALSE, bio |-> FALSE]

\* A descriptor that is not open.  closeNotify: the peer of the connection
\* has sent close-notify.  interrupted: the last read of the connection that
\* reached the library received data and then close-notify.
ClosedSock ==
    [open |-> FALSE, closeNotify |-> FALSE, interrupted |-> FALSE]

\* The connection's peer after mbedtls_ssl_read answered r with count bytes
\* read before in the call.
PeerAfterRead(s, r, count) ==
    [s EXCEPT !.closeNotify = @ \/ r = MBEDTLS_ERR_SSL_PEER_CLOSE_NOTIFY,
              !.interrupted =
                  (r = MBEDTLS_ERR_SSL_PEER_CLOSE_NOTIFY /\ count > 0)]

\* One entry of log: library function f, its arguments a and b, its result r.
Call(f, a, b, r) == [f |-> f, a |-> a, b |-> b, r |-> r]

\* The descriptors that are open.
OpenFds == {fd \in Fds : socks[fd].open}

\* The handles the caller holds: established and not destroyed.
Live == {p \in Handles : mem[p] /\ data[p].ssl = "open"}

Init ==
    /\ pc = "idle"
    /\ op = "none"
    /\ result = 0
    /\ mem = [p \in Handles |-> FALSE]
    /\ data = [p \in Handles |-> ZeroData]
    /\ socks = [fd \in Fds |-> ClosedSock]
    /\ net_status = 0
    /\ h = NULL
    /\ len = 0
    /\ timeout_ms = 0
    /\ ret = 0
    /\ readLen = 0
    /\ writtenLen = 0
    /\ naddr = 0
    /\ cur = 0
    /\ nwant = 0
    /\ log = <<>>


(* ------------------------- library and OS calls ------------------------ *)
\* socket(): the lowest descriptor that is not open, or -1.  It can always
\* fail and must fail when the table is full.
SocketResults ==
    {-1} \cup (IF Fds \ OpenFds = {} THEN {}
               ELSE {CHOOSE fd \in Fds \ OpenFds :
                        \A g \in Fds \ OpenFds : fd <= g})

\* close(fd): 0 when fd was open, -1 (EBADF) otherwise.
CloseResult(fd) == IF fd \in OpenFds THEN 0 ELSE -1

\* The descriptor table after close(fd).
Closed(fd) ==
    IF fd \in OpenFds THEN [socks EXCEPT ![fd] = ClosedSock] ELSE socks

\* mbedtls_net_free(&pTlsData->fd): nothing when fd is -1, otherwise the
\* descriptor is shut down and closed and fd becomes -1.  The log entry
\* carries the descriptor and what close answered.
NetFreeCall(p) ==
    Call("mbedtls_net_free", data[p].fd, 0,
         IF data[p].fd = -1 THEN 0 ELSE CloseResult(data[p].fd))
\* mbedtls_net_free that leaves the descriptor open.
NetFreeSocks_NoClose(p) == socks
NetFreeSocks(p) == IF data[p].fd = -1 THEN socks ELSE Closed(data[p].fd)

(* -------------------------- HAL_iTLS_Establish ------------------------- *)
\* HAL_iTLS_Establish that does not look at what _TLSConnectNetwork returned.
EstablishResult_Always(r, p) == p

\* Lines 389-394: the handle HAL_iTLS_Establish returns.
EstablishResult(r, p) == IF r # 0 THEN NULL ELSE p

\* A handshake loop that goes on only after MBEDTLS_ERR_SSL_WANT_READ.
HandshakeRetry_ReadOnly(r) == r = MBEDTLS_ERR_SSL_WANT_READ

\* Line 255: the handshake results on which the loop calls again.
HandshakeRetry(r) ==
    r = MBEDTLS_ERR_SSL_WANT_READ \/ r = MBEDTLS_ERR_SSL_WANT_WRITE

\* Lines 380-383: HAL_Malloc answered NULL.
Establish_NoMem ==
    /\ pc = "idle"
    /\ pc' = "ret"
    /\ op' = "Establish"
    /\ result' = NULL
    /\ log' = <<Call("HAL_Malloc", 0, 0, NULL)>>
    /\ UNCHANGED <<mem, data, socks, net_status, h, ret, locals>>

\* Lines 380-387 and 183-193: HAL_Malloc answered p; the object is zeroed
\* and _TLSConnectNetwork initialises the three contexts.
Establish_Alloc ==
    /\ pc = "idle"
    /\ \E p \in Handles :
        /\ ~mem[p]
        /\ mem' = [mem EXCEPT ![p] = TRUE]
        /\ data' = [data EXCEPT ![p] =
                      [ZeroData EXCEPT !.ssl = "init", !.fd = -1,
                                       !.conf = "init"]]
        /\ h' = p
        /\ log' = <<Call("HAL_Malloc", 0, 0, p),
                    Call("mbedtls_ssl_init", p, 0, 0),
                    Call("mbedtls_net_init", p, 0, 0),
                    Call("mbedtls_ssl_config_init", p, 0, 0)>>
    /\ pc' = "net_connect"
    /\ op' = "Establish"
    /\ ret' = -1
    /\ UNCHANGED <<result, socks, net_status, locals>>

\* Lines 122-137: net_prepare answers 0 on this build; getaddrinfo fails,
\* or answers a list of n addresses.
NetConnect_Resolve ==
    /\ pc = "net_connect"
    /\ \/ /\ ret' = MBEDTLS_ERR_NET_UNKNOWN_HOST
          /\ pc' = "connected"
          /\ log' = Append(log, Call("getaddrinfo", 0, 0, -1))
          /\ UNCHANGED <<naddr, cur>>
       \/ \E n \in 0..NumAddrs :
          /\ naddr' = n
          /\ cur' = 1
          /\ ret' = MBEDTLS_ERR_NET_UNKNOWN_HOST
          /\ pc' = "addr_loop"
          /\ log' = Append(log, Call("getaddrinfo", n, 0, 0))
    /\ UNCHANGED <<op, result, mem, data, socks, net_status, h, len,
                   timeout_ms, readLen, writtenLen, nwant>>

\* Lines 138-144: socket() for the address cur.
NetConnect_Socket ==
    /\ pc = "addr_loop"
    /\ cur <= naddr
    /\ \E fd \in SocketResults :
        /\ data' = [data EXCEPT ![h].fd = fd]
        /\ log' = Append(log, Call("socket", cur, 0, fd))
        /\ IF fd < 0
           THEN /\ ret' = MBEDTLS_ERR_NET_SOCKET_FAILED
                /\ cur' = cur + 1
                /\ pc' = "addr_loop"
                /\ UNCHANGED socks
           ELSE /\ socks' = [socks EXCEPT ![fd] =
                               [ClosedSock EXCEPT !.open = TRUE]]
                /\ pc' = "setsockopt"
                /\ UNCHANGED <<ret, cur>>
    /\ UNCHANGED <<op, result, mem, net_status, h, len, timeout_ms, readLen,
                   writtenLen, naddr, nwant>>

\* A connect loop that gives the address up when setsockopt fails.
NetConnect_Setsockopt_GiveUp ==
    /\ pc = "setsockopt"
    /\ \E r \in {0, -1} :
        /\ log' = Append(log, Call("setsockopt", data[h].fd,
                                   SEND_TIMEOUT_SECONDS, r))
        /\ IF r = 0
           THEN /\ pc' = "connect"
                /\ UNCHANGED <<socks, ret, cur>>
           ELSE /\ socks' = Closed(data[h].fd)
                /\ ret' = MBEDTLS_ERR_NET_CONNECT_FAILED
                /\ cur' = cur + 1
                /\ pc' = "addr_loop"
    /\ UNCHANGED <<op, result, mem, data, net_status, h, len, timeout_ms,
                   readLen, writtenLen, naddr, nwant>>

\* Lines 146-153: setsockopt(SO_SNDTIMEO, timeout); a failure is logged.
NetConnect_Setsockopt ==
    /\ pc = "setsockopt"
    /\ \E r \in {0, -1} :
        log' = Append(log, Call("setsockopt", data[h].fd,
                                SEND_TIMEOUT_SECONDS, r))
    /\ pc' = "connect"
    /\ UNCHANGED <<op, result, mem, data, socks, net_status, h, ret, locals>>

\* A connect loop that leaves the descriptor open when connect() fails.
NetConnect_Connect_NoClose ==
    /\ pc = "connect"
    /\ \/ /\ ret' = 0
          /\ pc' = "connected"
          /\ log' = Append(log, Call("connect", data[h].fd, cur, 0))
          /\ UNCHANGED cur
       \/ /\ ret' = MBEDTLS_ERR_NET_CONNECT_FAILED
          /\ cur' = cur + 1
          /\ pc' = "addr_loop"
          /\ log' = Append(log, Call("connect", data[h].fd, cur, -1))
    /\ UNCHANGED <<op, result, mem, data, socks, net_status, h, len,
                   timeout_ms, readLen, writtenLen, naddr, nwant>>

\* Lines 155-161: connect(); on failure the descriptor is closed and the
\* next address is tried.
NetConnect_Connect ==
    /\ pc = "connect"
    /\ \/ /\ ret' = 0
          /\ pc' = "connected"
          /\ log' = Append(log, Call("connect", data[h].fd, cur, 0))
          /\ UNCHANGED <<socks, cur>>
       \/ /\ socks' = Closed(data[h].fd)
          /\ ret' = MBEDTLS_ERR_NET_CONNECT_FAILED
          /\ cur' = cur + 1
          /\ pc' = "addr_loop"
          /\ log' = log \o <<Call("connect", data[h].fd, cur, -1),
                             Call("close", data[h].fd, 0,
                                  CloseResult(data[h].fd))>>
    /\ UNCHANGED <<op, result, mem, data, net_status, h, len, timeout_ms,
                   readLen, writtenLen, naddr, nwant>>

\* Lines 138, 164-166: the list is exhausted; freeaddrinfo and return ret.
NetConnect_Exhausted ==
    /\ pc = "addr_loop"
    /\ cur > naddr
    /\ pc' = "connected"
    /\ UNCHANGED <<op, result, mem, data, socks, net_status, h, ret, locals,
                   log>>

\* Lines 200-204 and 389-392: mbedtls_net_connect_timeout failed;
\* _TLSConnectNetwork returns its code at once and HAL_iTLS_Establish
\* frees the object.
TLS_ConnectFailed ==
    /\ pc = "connected"
    /\ ret # 0
    /\ mem' = [mem EXCEPT ![h] = FALSE]
    /\ log' = log \o <<Call("mbedtls_net_connect_timeout", h, 0, ret),
                       Call("HAL_Free", h, 0, 0)>>
    /\ result' = EstablishResult(ret, h)
    /\ pc' = "ret"
    /\ UNCHANGED <<op, data, socks, net_status, h, ret, locals>>

\* Lines 200-211: mbedtls_net_connect_timeout answered 0.
TLS_ConnectOk ==
    /\ pc = "connected"
    /\ ret = 0
    /\ log' = Append(log, Call("mbedtls_net_connect_timeout", h, 0, ret))
    /\ pc' = "config_defaults"
    /\ UNCHANGED <<op, result, mem, data, socks, net_status, h, ret, locals>>

\* Lines 217-231: mbedtls_ssl_config_defaults; on success both version
\* limits are pinned and the RNG and debug callbacks are set.
TLS_ConfigDefaults ==
    /\ pc = "config_defaults"
    /\ \E r \in {0} \cup SetupErrs :
        /\ ret' = r
        /\ IF r # 0
           THEN /\ data' = [data EXCEPT ![h].conf = "partial"]
                /\ log' = Append(log,
                                 Call("mbedtls_ssl_config_defaults", h, 0, r))
                /\ pc' = "out"
           ELSE /\ data' = [data EXCEPT
                      ![h].conf = "defaults",
                      ![h].max_ver = <<MBEDTLS_SSL_MAJOR_VERSION_3,
                                       MBEDTLS_SSL_MINOR_VERSION_3>>,
                      ![h].min_ver = <<MBEDTLS_SSL_MAJOR_VERSION_3,
                                       MBEDTLS_SSL_MINOR_VERSION_3>>,
                      ![h].rng = TRUE,
                      ![h].dbg = TRUE]
                /\ log' = log \o
                     <<Call("mbedtls_ssl_config_defaults", h, 0, r),
                       Call("mbedtls_ssl_conf_max_version",
                            MBEDTLS_SSL_MAJOR_VERSION_3,
                            MBEDTLS_SSL_MINOR_VERSION_3, 0),
                       Call("mbedtls_ssl_conf_min_version",
                            MBEDTLS_SSL_MAJOR_VERSION_3,
                            MBEDTLS_SSL_MINOR_VERSION_3, 0),
                       Call("mbedtls_ssl_conf_rng", h, 0, 0),
                       Call("mbedtls_ssl_conf_dbg", h, 0, 0)>>
                /\ pc' = "auth_extra"
    /\ UNCHANGED <<op, result, mem, socks, net_status, h, locals>>

\* A _TLSConnectNetwork that goes on to mbedtls_ssl_setup whatever
\* mbedtls_ssl_conf_auth_extra answered.
TLS_AuthExtra_GoOn ==
    /\ pc = "auth_extra"
    /\ \E r \in {0} \cup SetupErrs :
        /\ ret' = r
        /\ data' = [data EXCEPT ![h].auth = TRUE]
        /\ log' = Append(log, Call("mbedtls_ssl_conf_auth_extra", h, 0, r))
        /\ pc' = "ssl_setup"
    /\ UNCHANGED <<op, result, mem, socks, net_status, h, locals>>

\* Lines 234-237: mbedtls_ssl_conf_auth_extra with the product key.
TLS_AuthExtra ==
    /\ pc = "auth_extra"
    /\ \E r \in {0} \cup SetupErrs :
        /\ ret' = r
        /\ data' = IF r = 0 THEN [data EXCEPT ![h].auth = TRUE]
                   ELSE [data EXCEPT ![h].conf = "partial"]
        /\ log' = Append(log, Call("mbedtls_ssl_conf_auth_extra", h, 0, r))
        /\ pc' = IF r # 0 THEN "out" ELSE "ssl_setup"
    /\ UNCHANGED <<op, result, mem, socks, net_status, h, locals>>

\* Lines 239-244: mbedtls_ssl_setup, then mbedtls_ssl_set_bio.
TLS_Setup ==
    /\ pc = "ssl_setup"
    /\ \E r \in {0} \cup SetupErrs :
        /\ ret' = r
        /\ IF r # 0
           THEN /\ data' = [data EXCEPT ![h].ssl = "partial"]
                /\ log' = Append(log, Call("mbedtls_ssl_setup", h, 0, r))
                /\ pc' = "out"
           ELSE /\ data' = [data EXCEPT ![h].ssl = "setup", ![h].bio = TRUE]
                /\ log' = log \o <<Call("mbedtls_ssl_setup", h, 0, r),
                                   Call("mbedtls_ssl_set_bio", h, 0, 0)>>
                /\ pc' = "handshake"
    /\ UNCHANGED <<op, result, mem, socks, net_status, h, locals>>

\* Lines 254-259: one mbedtls_ssl_handshake call of the loop.
TLS_Handshake ==
    /\ pc = "handshake"
    /\ \E r \in {0} \cup SetupErrs \cup
                (IF nwant < MaxWant
                 THEN {MBEDTLS_ERR_SSL_WANT_READ, MBEDTLS_ERR_SSL_WANT_WRITE}
                 ELSE {}) :
        /\ ret' = r
        /\ log' = Append(log, Call("mbedtls_ssl_handshake", h, 0, r))
        /\ IF r = 0
           THEN /\ data' = [data EXCEPT ![h].ssl = "open"]
                /\ pc' = "out"
                /\ UNCHANGED nwant
           ELSE IF HandshakeRetry(r)
           THEN /\ nwant' = nwant + 1
                /\ pc' = "handshake"
                /\ UNCHANGED data
           ELSE /\ pc' = "out"
                /\ UNCHANGED <<data, nwant>>
    /\ UNCHANGED <<op, result, mem, socks, net_status, h, len, timeout_ms,
                   readLen, writtenLen, naddr, cur>>

\* Lines 270-277 and 389-394: _out frees the three contexts when ret is
\* not 0; HAL_iTLS_Establish then frees the object and returns NULL, or
\* returns the object.
TLS_Out ==
    /\ pc = "out"
    /\ IF ret # 0
       THEN /\ socks' = NetFreeSocks(h)
            /\ data' = [data EXCEPT ![h].fd = -1, ![h].ssl = "freed",
                                    ![h].conf = "freed"]
            /\ mem' = [mem EXCEPT ![h] = FALSE]
            /\ log' = log \o <<NetFreeCall(h),
                               Call("mbedtls_ssl_free", h, 0, 0),
                               Call("mbedtls_ssl_config_free", h, 0, 0),
                               Call("HAL_Free", h, 0, 0)>>
       ELSE UNCHANGED <<socks, data, mem, log>>
    /\ result' = EstablishResult(ret, h)
    /\ pc' = "ret"
    /\ UNCHANGED <<op, net_status, h, ret, locals>>

(* ---------------------------- HAL_iTLS_Read --------------------------- *)
\* readLen < len and writtenLen < len (lines 291, 339): the counter is a
\* uint32_t and len an int, so len is converted to uint32_t.  A negative len
\* becomes 2^32 + len, which is above every counter value below 2^31.
LessU32(count, l) == IF l < 0 THEN TRUE ELSE count < l

\* A loop that asks for len bytes in every call.
Requested_Whole(l, count) == IF l < 0 THEN 2147483647 ELSE l

\* (len - readLen), the size handed to the library.  For a negative len it
\* is 2^32 + len - readLen, which is larger than any chunk.
Requested(l, count) == IF l < 0 THEN 2147483647 - count ELSE l - count

\* Positive answers of the library to a request of n bytes: at most n, at
\* most MaxChunk, and within MaxRun in a call whose len is negative.
Chunks(l, count) ==
    1..Min(Min(Requested(l, count), MaxChunk),
           IF l < 0 THEN MaxRun - count ELSE MaxChunk)

\* The read-complete test without MBEDTLS_ERR_SSL_TIMEOUT.
ReadComplete_NoTimeout(r) ==
    \/ r = MBEDTLS_ERR_SSL_CONN_EOF
    \/ r = MBEDTLS_ERR_SSL_SESSION_TICKET_EXPIRED
    \/ r = MBEDTLS_ERR_SSL_NON_FATAL

\* Lines 304-307: the codes on which the read is already complete.
ReadComplete(r) ==
    \/ r = MBEDTLS_ERR_SSL_TIMEOUT
    \/ r = MBEDTLS_ERR_SSL_CONN_EOF
    \/ r = MBEDTLS_ERR_SSL_SESSION_TICKET_EXPIRED
    \/ r = MBEDTLS_ERR_SSL_NON_FATAL

ReadCompleteCodes ==
    {MBEDTLS_ERR_SSL_TIMEOUT, MBEDTLS_ERR_SSL_CONN_EOF,
     MBEDTLS_ERR_SSL_SESSION_TICKET_EXPIRED, MBEDTLS_ERR_SSL_NON_FATAL}

\* What mbedtls_ssl_read can answer.
ReadAnswers(l, count) ==
    Chunks(l, count) \cup {0, MBEDTLS_ERR_SSL_PEER_CLOSE_NOTIFY}
        \cup ReadCompleteCodes \cup ReadErrs

\* Line 298: the value returned when mbedtls_ssl_read answers 0.
ReadEofResult(ns, rl) == IF ns = -2 THEN ns ELSE rl

\* Line 327: the value returned after the loop.
ReadEndResult(ns, rl) == IF rl > 0 THEN rl ELSE ns

\* A read that forwards the library's code.
ReadErrorResult_Forward(r) == r

\* Line 315: the value returned on any other negative answer.
ReadErrorResult(r) == -1

\* Lines 280-290, 415-418: the call starts; the read timeout is configured.
HAL_iTLS_Read ==
    /\ pc = "idle"
    /\ \E p \in Live, l \in LenSet, t \in TimeoutSet :
        /\ h' = p
        /\ len' = l
        /\ timeout_ms' = t
        /\ log' = <<Call("mbedtls_ssl_conf_read_timeout", p, t, 0)>>
    /\ readLen' = 0
    /\ ret' = -1
    /\ pc' = "read_loop"
    /\ op' = "Read"
    /\ UNCHANGED <<result, mem, data, socks, net_status, writtenLen, naddr,
                   cur, nwant>>

\* Lines 291-317: one iteration of the loop.
Read_Step ==
    /\ pc = "read_loop"
    /\ LessU32(readLen, len)
    /\ \E r \in ReadAnswers(len, readLen) :
        /\ ret' = r
        /\ log' = Append(log, Call("mbedtls_ssl_read", readLen,
                                   Requested(len, readLen), r))
        /\ socks' = [socks EXCEPT ![data[h].fd] =
                                      PeerAfterRead(@, r, readLen)]
        /\ IF r > 0
           THEN /\ readLen' = readLen + r
                /\ net_status' = 0
                /\ pc' = "read_loop"
                /\ UNCHANGED result
           ELSE IF r = 0
           THEN /\ result' = ReadEofResult(net_status, readLen)
                /\ pc' = "ret"
                /\ UNCHANGED <<readLen, net_status>>
           ELSE IF r = MBEDTLS_ERR_SSL_PEER_CLOSE_NOTIFY
           THEN /\ net_status' = -2
                /\ pc' = "read_end"
                /\ UNCHANGED <<result, readLen>>
           ELSE IF ReadComplete(r)
           THEN /\ result' = readLen
                /\ pc' = "ret"
                /\ UNCHANGED <<readLen, net_status>>
           ELSE /\ net_status' = -1
                /\ result' = ReadErrorResult(r)
                /\ pc' = "ret"
                /\ UNCHANGED readLen
    /\ UNCHANGED <<op, mem, data, h, len, timeout_ms, writtenLen, naddr, cur,
                   nwant>>

\* Lines 291, 303, 327: the loop has ended, by its condition or by break.
Read_End ==
    /\ \/ pc = "read_end"
       \/ pc = "read_loop" /\ ~LessU32(readLen, len)
    /\ result' = ReadEndResult(net_status, readLen)
    /\ pc' = "ret"
    /\ UNCHANGED <<op, mem, data, socks, net_status, h, ret, locals, log>>

(* ---------------------------- HAL_iTLS_Write -------------------------- *)
\* What mbedtls_ssl_write can answer.
WriteAnswers(l, count) == Chunks(l, count) \cup {0} \cup WriteErrs

\* A write that returns the bytes written so far on a timeout.
WriteTimeoutResult_Count(wl) == wl

\* Line 346: the value returned when mbedtls_ssl_write answers 0.
WriteTimeoutResult(wl) == 0

\* Line 349: the value returned on a negative answer.
WriteErrorResult(r) == -1

\* Lines 330-338, 410-413: the call starts.  timeout_ms is not used.
HAL_iTLS_Write ==
    /\ pc = "idle"
    /\ \E p \in Live, l \in LenSet, t \in TimeoutSet :
        /\ h' = p
        /\ len' = l
        /\ timeout_ms' = t
    /\ writtenLen' = 0
    /\ ret' = -1
    /\ log' = <<>>
    /\ pc' = "write_loop"
    /\ op' = "Write"
    /\ UNCHANGED <<result, mem, data, socks, net_status, readLen, naddr, cur,
                   nwant>>

\* Lines 339-351: one iteration of the loop.
Write_Step ==
    /\ pc = "write_loop"
    /\ LessU32(writtenLen, len)
    /\ \E r \in WriteAnswers(len, writtenLen) :
        /\ ret' = r
        /\ log' = Append(log, Call("mbedtls_ssl_write", writtenLen,
                                   Requested(len, writtenLen), r))
        /\ IF r > 0
           THEN /\ writtenLen' = writtenLen + r
                /\ pc' = "write_loop"
                /\ UNCHANGED result
           ELSE IF r = 0
           THEN /\ result' = WriteTimeoutResult(writtenLen)
                /\ pc' = "ret"
                /\ UNCHANGED writtenLen
           ELSE /\ result' = WriteErrorResult(r)
                /\ pc' = "ret"
                /\ UNCHANGED writtenLen
    /\ UNCHANGED <<op, mem, data, socks, net_status, h, len, timeout_ms,
                   readLen, naddr, cur, nwant>>

\* Lines 339, 360: the loop has ended.
Write_End ==
    /\ pc = "write_loop"
    /\ ~LessU32(writtenLen, len)
    /\ result' = writtenLen
    /\ pc' = "ret"
    /\ UNCHANGED <<op, mem, data, socks, net_status, h, ret, locals, log>>

(* ------------------- the two loops as functions ----------------------- *)
\* Lines 282-327: the value _network_ssl_read returns when net_status is ns
\* on entry, readLen is rl and the library gives the answers in order.
RECURSIVE ReadRun(_, _, _, _)
ReadRun(ns, rl, l, answers) ==
    IF ~LessU32(rl, l) THEN ReadEndResult(ns, rl)
    ELSE LET r == Head(answers) IN
         IF r > 0 THEN ReadRun(0, rl + r, l, Tail(answers))
         ELSE IF r = 0 THEN ReadEofResult(ns, rl)
         ELSE IF r = MBEDTLS_ERR_SSL_PEER_CLOSE_NOTIFY
         THEN ReadEndResult(-2, rl)
         ELSE IF ReadComplete(r) THEN rl
         ELSE ReadErrorResult(r)

\* Lines 332-360: the value _network_ssl_write returns when writtenLen is wl
\* and the library gives the answers in order.
RECURSIVE WriteRun(_, _, _)
WriteRun(wl, l, answers) ==
    IF ~LessU32(wl, l) THEN wl
    ELSE LET r == Head(answers) IN
         IF r > 0 THEN WriteRun(wl + r, l, Tail(answers))
         ELSE IF r = 0 THEN WriteTimeoutResult(wl)
         ELSE WriteErrorResult(r)

(* --------------------------- HAL_iTLS_Destroy ------------------------- *)
\* Lines 399-402: a NULL handle.
Destroy_Null ==
    /\ pc = "idle"
    /\ h' = NULL
    /\ log' = <<>>
    /\ result' = 0
    /\ pc' = "ret"
    /\ op' = "Destroy"
    /\ UNCHANGED <<mem, data, socks, net_status, ret, locals>>

\* Lines 397-404: a handle the caller holds.
HAL_iTLS_Destroy ==
    /\ pc = "idle"
    /\ \E p \in Live : h' = p
    /\ log' = <<>>
    /\ pc' = "close_notify"
    /\ op' = "Destroy"
    /\ UNCHANGED <<result, mem, data, socks, net_status, ret, locals>>

\* A disconnect that sends no close-notify.
Disconnect_CloseNotify_Skip ==
    /\ pc = "close_notify"
    /\ pc' = "net_free"
    /\ UNCHANGED <<op, result, mem, data, socks, net_status, h, ret, locals,
                   log>>

\* Line 365: mbedtls_ssl_close_notify; its result is not looked at.
Disconnect_CloseNotify ==
    /\ pc = "close_notify"
    /\ \E r \in {0} \cup WriteErrs :
        log' = Append(log, Call("mbedtls_ssl_close_notify", h, 0, r))
    /\ pc' = "net_free"
    /\ UNCHANGED <<op, result, mem, data, socks, net_status, h, ret, locals>>

\* Line 366: mbedtls_net_free.
Disconnect_NetFree ==
    /\ pc = "net_free"
    /\ socks' = NetFreeSocks(h)
    /\ data' = [data EXCEPT ![h].fd = -1]
    /\ log' = Append(log, NetFreeCall(h))
    /\ pc' = "ssl_free"
    /\ UNCHANGED <<op, result, mem, net_status, h, ret, locals>>

\* Line 367: mbedtls_ssl_free.
Disconnect_SslFree ==
    /\ pc = "ssl_free"
    /\ data' = [data EXCEPT ![h].ssl = "freed"]
    /\ log' = Append(log, Call("mbedtls_ssl_free", h, 0, 0))
    /\ pc' = "config_free"
    /\ UNCHANGED <<op, result, mem, socks, net_status, h, ret, locals>>

\* Line 368: mbedtls_ssl_config_free.
Disconnect_ConfigFree ==
    /\ pc = "config_free"
    /\ data' = [data EXCEPT ![h].conf = "freed"]
    /\ log' = Append(log, Call("mbedtls_ssl_config_free", h, 0, 0))
    /\ pc' = "hal_free"
    /\ UNCHANGED <<op, result, mem, socks, net_status, h, ret, locals>>

\* Lines 405-407: HAL_Free and return 0.
Destroy_Free ==
    /\ pc = "hal_free"
    /\ mem' = [mem EXCEPT ![h] = FALSE]
    /\ log' = Append(log, Call("HAL_Free", h, 0, 0))
    /\ result' = 0
    /\ pc' = "ret"
    /\ UNCHANGED <<op, data, socks, net_status, h, ret, locals>>

(* ------------------------------ the caller ----------------------------- *)
\* The call has returned; the caller is between calls again.  The locals
\* of the call are gone and freed memory has no content.
Return ==
    /\ pc = "ret"
    /\ pc' = "idle"
    /\ op' = "none"
    /\ result' = 0
    /\ h' = NULL
    /\ len' = 0
    /\ timeout_ms' = 0
    /\ ret' = 0
    /\ readLen' = 0
    /\ writtenLen' = 0
    /\ naddr' = 0
    /\ cur' = 0
    /\ nwant' = 0
    /\ log' = <<>>
    /\ data' = [p \in Handles |-> IF mem[p] THEN data[p] ELSE ZeroData]
    /\ UNCHANGED <<mem, socks, net_status>>

Next ==
    \/ Establish_NoMem
    \/ Establish_Alloc
    \/ NetConnect_Resolve
    \/ NetConnect_Socket
    \/ NetConnect_Setsockopt
    \/ NetConnect_Connect
    \/ NetConnect_Exhausted
    \/ TLS_ConnectFailed
    \/ TLS_ConnectOk
    \/ TLS_ConfigDefaults
    \/ TLS_AuthExtra
    \/ TLS_Setup
    \/ TLS_Handshake
    \/ TLS_Out
    \/ HAL_iTLS_Read
    \/ Read_Step
    \/ Read_End
    \/ HAL_iTLS_Write
    \/ Write_Step
    \/ Write_End
    \/ Destroy_Null
    \/ HAL_iTLS_Destroy
    \/ Disconnect_CloseNotify
    \/ Disconnect_NetFree
    \/ Disconnect_SslFree
    \/ Disconnect_ConfigFree
    \/ Destroy_Free
    \/ Return

Spec == Init /\ [][Next]_vars

\* The thread that called HAL_iTLS_Establish keeps running: the handshake
\* loop of lines 254-259 makes its next call, and _out runs once the loop
\* is left.  How often the library answers WANT_READ or WANT_WRITE is
\* bounded by MaxWant.
FairSpec == Spec /\ WF_vars(TLS_Handshake) /\ WF_vars(TLS_Out)

(* ------------------------- reading the log ----------------------------- *)
\* The places of log where f was called.
Idx(f) == {i \in 1..Len(log) : log[i].f = f}
Called(f) == Idx(f) # {}
\* What the last call of f answered.
LastRet(f) == log[CHOOSE i \in Idx(f) : \A j \in Idx(f) : j <= i].r
\* What the calls of f answered, in order.
Answers(f) ==
    LET calls == SelectSeq(log, LAMBDA e : e.f = f)
    IN  [i \in 1..Len(calls) |-> calls[i].r]
\* The last entry of log.
LastCall == log[Len(log)]
\* The bytes the library moved: the sum of its positive answers.
RECURSIVE SumPos(_)
SumPos(answers) ==
    IF answers = <<>> THEN 0
    ELSE (IF Head(answers) > 0 THEN Head(answers) ELSE 0)
         + SumPos(Tail(answers))

Returned(o) == pc = "ret" /\ op = o

(* ------------------------------- C1 ------------------------------------ *)
\* The library steps of establish that can fail, after the allocation.
EstablishSteps ==
    {"mbedtls_net_connect_timeout", "mbedtls_ssl_config_defaults",
     "mbedtls_ssl_conf_auth_extra", "mbedtls_ssl_setup",
     "mbedtls_ssl_handshake"}

AllStepsSucceeded ==
    /\ Called("HAL_Malloc") /\ LastRet("HAL_Malloc") # NULL
    /\ \A f \in EstablishSteps : Called(f) /\ LastRet(f) = 0

\* C1: when HAL_iTLS_Establish returns, the handle is non-null if and only
\* if, in this call, the allocation succeeded and the TCP connect,
\* mbedtls_ssl_config_defaults, mbedtls_ssl_conf_auth_extra,
\* mbedtls_ssl_setup and the last handshake call all answered 0; the
\* non-null handle is the object allocated in this call.
C1_EstablishHandleIffAllSteps ==
    Returned("Establish") =>
        /\ (result # NULL) <=> AllStepsSucceeded
        /\ result # NULL => result = LastRet("HAL_Malloc") /\ result \in Live

\* Establish returned a handle after the handshake had to be called again.
C1_Witness ==
    /\ Returned("Establish")
    /\ result # NULL
    /\ MBEDTLS_ERR_SSL_WANT_READ \in
           {log[i].r : i \in Idx("mbedtls_ssl_handshake")}

(* ------------------------------- C2 ------------------------------------ *)
\* The library reported an error other than close-notify and the
\* read-complete codes during this call.
ReadErrorInCall ==
    \E i \in Idx("mbedtls_ssl_read") :
        /\ log[i].r < 0
        /\ log[i].r # MBEDTLS_ERR_SSL_PEER_CLOSE_NOTIFY
        /\ log[i].r \notin ReadCompleteCodes

\* C2: HAL_iTLS_Read returns -2 only when the peer of the handle read has
\* sent close-notify and no byte was read in this call, and -1 only when
\* the library reported some other error during this call.  Stated for the
\* calls that ask for data (len > 0).
C2_ReadNegativeHasItsCause ==
    (Returned("Read") /\ len > 0) =>
        /\ result = -2 =>
               /\ socks[data[h].fd].closeNotify
               /\ SumPos(Answers("mbedtls_ssl_read")) = 0
        /\ result = -1 => ReadErrorInCall

(* ------------------------------- C3 ------------------------------------ *)
\* The step in which mbedtls_ssl_read answers a read-complete code.
ReadCompleteStep ==
    /\ pc = "read_loop"
    /\ Len(log') = Len(log) + 1
    /\ log'[Len(log')].f = "mbedtls_ssl_read"
    /\ log'[Len(log')].r \in ReadCompleteCodes

\* C3: when mbedtls_ssl_read answers MBEDTLS_ERR_SSL_TIMEOUT, CONN_EOF,
\* SESSION_TICKET_EXPIRED or NON_FATAL, HAL_iTLS_Read returns at once the
\* number of bytes read so far in this call (0 when nothing was read) and
\* net_status keeps the value it had.
C3_ReadCompleteReturnsCount ==
    [][ReadCompleteStep =>
          /\ pc' = "ret"
          /\ result' = readLen
          /\ result' = SumPos(Answers("mbedtls_ssl_read"))
          /\ net_status' = net_status]_vars

\* A read that timed out with nothing read returned 0 while net_status
\* still remembers a close.
C3_Witness ==
    /\ Returned("Read")
    /\ LastCall.r = MBEDTLS_ERR_SSL_TIMEOUT
    /\ result = 0
    /\ net_status = -2

(* ------------------------------- C4 ------------------------------------ *)
\* C4: when HAL_iTLS_Write returns a non-negative value, that value is the
\* number of bytes the library accepted during the call, and the value is
\* negative exactly when the library answered a negative result.  Stated
\* for len >= 0.
C4_WriteReturnsBytesWritten ==
    (Returned("Write") /\ len >= 0) =>
        /\ result >= 0 => result = SumPos(Answers("mbedtls_ssl_write"))
        /\ (result < 0) <=>
               (\E i \in Idx("mbedtls_ssl_write") : log[i].r < 0)

(* ------------------------------- C5 ------------------------------------ *)
\* C5: the result of a read, write or destroy call is a function of the
\* call's arguments and the library's answers during the call: it is the
\* value the same call with the same answers gives when no call was made
\* before it (the file's static state as the program starts).  Stated for
\* the reads that ask for data (len > 0).
C5_ResultFromHandleArgsAnswers ==
    /\ (Returned("Read") /\ len > 0) =>
           result = ReadRun(0, 0, len, Answers("mbedtls_ssl_read"))
    /\ Returned("Write") =>
           result = WriteRun(0, len, Answers("mbedtls_ssl_write"))
    /\ Returned("Destroy") => result = 0

(* ------------------------------- C6 ------------------------------------ *)
IsClose(e) == e.f = "close" \/ (e.f = "mbedtls_net_free" /\ e.a # -1)

\* The closes of the socket opened at place i of log, up to the next time
\* socket() hands out the same descriptor.
ClosesOf(i) ==
    {j \in (i + 1)..Len(log) :
        /\ IsClose(log[j])
        /\ log[j].a = log[i].r
        /\ \A k \in (i + 1)..(j - 1) :
               ~(log[k].f = "socket" /\ log[k].r = log[i].r)}

\* The sockets this call opened.
Opened == {i \in Idx("socket") : log[i].r > 0}

\* The descriptors the caller's handles own.
OwnedFds == {data[p].fd : p \in Live}

HoldsResources(p) ==
    \/ data[p].ssl \in {"setup", "open", "partial"}
    \/ data[p].conf \in {"defaults", "partial"}

\* C6: when HAL_iTLS_Establish returns null, every socket it opened has
\* been closed exactly once, no close hit a descriptor that was not open,
\* the contexts it set up are freed and the object is freed; when it
\* returns a handle, exactly one of the sockets it opened is open and that
\* handle, and no other, owns it.  Either way the open descriptors are
\* exactly the ones the caller's handles own.
C6_EstablishLeaksNothing ==
    Returned("Establish") =>
        /\ \A i \in 1..Len(log) : IsClose(log[i]) => log[i].r = 0
        /\ OpenFds = OwnedFds
        /\ \A p, q \in Live : data[p].fd = data[q].fd => p = q
        /\ result = NULL =>
               /\ \A i \in Opened : Cardinality(ClosesOf(i)) = 1
               /\ \A p \in Handles :
                      Called("HAL_Malloc") /\ LastRet("HAL_Malloc") = p =>
                          ~mem[p] /\ ~HoldsResources(p)
                          /\ Cardinality(Idx("HAL_Free")) = 1
        /\ result # NULL =>
               /\ Cardinality({i \in Opened : ClosesOf(i) = {}}) = 1
               /\ \A i \in Opened : Cardinality(ClosesOf(i)) <= 1
               /\ data[result].fd \in OpenFds
               /\ data[result].fd = log[CHOOSE i \in Opened :
                                           ClosesOf(i) = {}].r
               /\ ~Called("HAL_Free")

\* Establish failed in the handshake after one address had refused the
\* connection: two sockets were opened and both are closed.
C6_Witness ==
    /\ Returned("Establish")
    /\ result = NULL
    /\ Cardinality(Opened) = 2
    /\ Called("mbedtls_ssl_handshake")
    /\ Live # {}

(* ------------------------------- C7 ------------------------------------ *)
DestroyOrder ==
    <<"mbedtls_ssl_close_notify", "mbedtls_net_free", "mbedtls_ssl_free",
      "mbedtls_ssl_config_free", "HAL_Free">>

\* C7: HAL_iTLS_Destroy returns 0 for every handle.  For a null handle it
\* calls nothing and frees nothing.  For a handle the caller holds it sends
\* close-notify, closes the socket, frees the session context, frees the
\* configuration context and frees the object, in this order, each once.
C7_DestroyOrder ==
    [][/\ (pc = "idle" /\ Returned("Destroy")' /\ h' = NULL) =>
              /\ result' = 0
              /\ log' = <<>>
              /\ UNCHANGED <<mem, data, socks>>
       /\ (pc = "hal_free" /\ Returned("Destroy")') =>
              /\ result' = 0
              /\ h' = h /\ h # NULL
              /\ [i \in 1..Len(log') |-> log'[i].f] = DestroyOrder
              /\ log'[2].a \in Fds /\ log'[2].r = 0
              /\ ~socks'[log'[2].a].open
              /\ data'[h].fd = -1
              /\ data'[h].ssl = "freed" /\ data'[h].conf = "freed"
              /\ mem[h] /\ ~mem'[h]
              /\ \A p \in Handles \ {h} : mem'[p] = mem[p]]_vars

\* A handle was destroyed while another one stays established.
C7_Witness ==
    /\ Returned("Destroy")
    /\ h # NULL
    /\ Len(log) = 5
    /\ Live # {}

(* ------------------------------- C8 ------------------------------------ *)
IsTimeoutSetting(e) ==
    e.f \in {"mbedtls_ssl_conf_read_timeout", "setsockopt"}

\* C8: in every HAL_iTLS_Read and HAL_iTLS_Write call, timeout_ms is handed
\* to the library as a timeout before the call's first library read or
\* write.  Stated for len >= 0.
C8_TimeoutHandedBeforeIo ==
    (op \in {"Read", "Write"} /\ len >= 0) =>
        \A i \in Idx("mbedtls_ssl_read") \cup Idx("mbedtls_ssl_write") :
            \E j \in 1..(i - 1) :
                IsTimeoutSetting(log[j]) /\ log[j].b = timeout_ms

(* ------------------------------- C9 ------------------------------------ *)
\* A read or write has returned right after the library answered a negative
\* code.
ReturnedOnFailure ==
    /\ pc = "ret"
    /\ op \in {"Read", "Write"}
    /\ log # <<>>
    /\ LastCall.f \in {"mbedtls_ssl_read", "mbedtls_ssl_write"}
    /\ LastCall.r < 0

\* C9 as stated: the negative value returned is the library's code, except
\* that peer-close has a value of its own.  Stated for len >= 0.
C9_ErrorsForwarded ==
    (ReturnedOnFailure /\ result < 0 /\ len >= 0) =>
        IF LastCall.r = MBEDTLS_ERR_SSL_PEER_CLOSE_NOTIFY
        THEN result # LastCall.r
        ELSE result = LastCall.r

\* C9 amended: the library's code is not forwarded.  A write that fails
\* returns -1.  A read returns -2 on close-notify when no byte was read in
\* the call and the byte count otherwise; the byte count on the four
\* read-complete codes; and -1 on every other code.
C9_ErrorsCollapsed ==
    ReturnedOnFailure =>
        IF op = "Write" THEN result = -1
        ELSE IF LastCall.r = MBEDTLS_ERR_SSL_PEER_CLOSE_NOTIFY
        THEN result = (IF readLen > 0 THEN readLen ELSE -2)
        ELSE IF LastCall.r \in ReadCompleteCodes THEN result = readLen
        ELSE result = -1

\* A read returned -1 after the library answered one of its own codes,
\* having read a byte before.
C9_Witness ==
    /\ ReturnedOnFailure
    /\ op = "Read"
    /\ LastCall.r \in OtherErrs
    /\ readLen > 0
    /\ result = -1

(* ------------------------------- C10 ----------------------------------- *)
\* C10: for len >= 0, HAL_iTLS_Read returns -2, -1, 0 or a byte count in
\* 1..len, and HAL_iTLS_Write returns -1, 0 or len.
C10_FourOutcomes ==
    (pc = "ret" /\ len >= 0) =>
        /\ op = "Read" => result \in {-2, -1, 0} \cup 1..len
        /\ op = "Write" => result \in {-1, 0, len}

\* A write of MaxLen bytes went through in more than one library call.
C10_Witness ==
    /\ Returned("Write")
    /\ len = MaxLen
    /\ result = len
    /\ Len(log) > 1

(* ------------------------------- C11 ----------------------------------- *)
\* The step in which mbedtls_ssl_read gives its answer, for a positive len.
ReadAnswerStep ==
    pc = "read_loop" /\ len > 0 /\ Len(log') = Len(log) + 1

\* The first answer of a read on a handle whose last read received data and
\* then close-notify.
FirstAnswerAfterInterrupt ==
    /\ ReadAnswerStep
    /\ Len(log) = 1
    /\ socks[data[h].fd].interrupted

\* C11: after a read that received data and then close-notify, the next
\* read on that handle whose first library answer is 0 or close-notify
\* returns -2; and a read in which the library delivers a byte resets
\* net_status to 0, so that an answer of 0 later in that call returns the
\* byte count.
C11_CloseReportedByNextRead ==
    [][/\ (FirstAnswerAfterInterrupt /\ ret' = 0) =>
              pc' = "ret" /\ result' = -2
       /\ (FirstAnswerAfterInterrupt
           /\ ret' = MBEDTLS_ERR_SSL_PEER_CLOSE_NOTIFY) =>
              pc' = "read_end" /\ readLen' = 0 /\ net_status' = -2
       /\ (pc = "read_end" /\ readLen = 0 /\ pc' = "ret") => result' = -2
       /\ (ReadAnswerStep /\ ret' > 0) => net_status' = 0
       /\ (ReadAnswerStep /\ ret' = 0 /\ readLen > 0) =>
              pc' = "ret" /\ result' = readLen]_vars

(* ------------------------------- C12 ----------------------------------- *)
HandshakeAnswers == Answers("mbedtls_ssl_handshake")
WantCodes == {MBEDTLS_ERR_SSL_WANT_READ, MBEDTLS_ERR_SSL_WANT_WRITE}

\* The last four calls of the log are the cleanup of _out and the free of
\* the object, in that order.
EndsWithCleanup ==
    /\ Len(log) >= 4
    /\ [i \in 1..4 |-> log[Len(log) - 4 + i].f] =
           <<"mbedtls_net_free", "mbedtls_ssl_free",
             "mbedtls_ssl_config_free", "HAL_Free">>

\* The socket the TCP connect left connected in this call.
ConnectedFd ==
    log[CHOOSE i \in Idx("connect") : log[i].r = 0].a

HandshakeLoopSafe ==
    (op = "Establish" /\ pc \in {"handshake", "out", "ret"}
     /\ Called("mbedtls_ssl_handshake")) =>
        LET a == HandshakeAnswers
            n == Len(HandshakeAnswers)
        IN  /\ \A i \in 1..(n - 1) : a[i] \in WantCodes
            /\ pc = "handshake" => a[n] \in WantCodes
            /\ pc \in {"out", "ret"} => a[n] \notin WantCodes
            /\ (pc = "ret" /\ a[n] = 0) =>
                   /\ result # NULL /\ result \in Live
                   /\ ~Called("mbedtls_net_free")
                   /\ ~Called("mbedtls_ssl_free")
                   /\ ~Called("mbedtls_ssl_config_free")
            /\ (pc = "ret" /\ a[n] # 0) =>
                   /\ result = NULL
                   /\ EndsWithCleanup
                   /\ ~socks[ConnectedFd].open
                   /\ \A p \in Handles :
                          LastRet("HAL_Malloc") = p =>
                              ~mem[p] /\ ~HoldsResources(p)

\* C12: the handshake loop calls mbedtls_ssl_handshake again exactly when
\* the answer was WANT_READ or WANT_WRITE; it stops with success at the
\* first 0 and stops with failure, freeing the socket, the session and the
\* configuration, at the first other answer; and, the library answering
\* something else after at most MaxWant retries, establish returns.
C12_HandshakeLoop ==
    /\ []HandshakeLoopSafe
    /\ (pc = "handshake") ~> Returned("Establish")

\* Establish failed in the handshake after the loop had gone on once for
\* WANT_WRITE.
C12_Witness ==
    /\ Returned("Establish")
    /\ result = NULL
    /\ Len(HandshakeAnswers) = 2
    /\ HandshakeAnswers[1] = MBEDTLS_ERR_SSL_WANT_WRITE
    /\ HandshakeAnswers[2] \notin WantCodes \cup {0}

(* ------------------------------- C13 ----------------------------------- *)
\* The steps of _TLSConnectNetwork in the order of lines 200-254.
EstablishOrder ==
    <<"mbedtls_net_connect_timeout", "mbedtls_ssl_config_defaults",
      "mbedtls_ssl_conf_max_version", "mbedtls_ssl_conf_min_version",
      "mbedtls_ssl_conf_rng", "mbedtls_ssl_conf_dbg",
      "mbedtls_ssl_conf_auth_extra", "mbedtls_ssl_setup",
      "mbedtls_ssl_set_bio", "mbedtls_ssl_handshake">>

\* The place of each step in EstablishOrder.
StepNo ==
    [f \in {EstablishOrder[k] : k \in 1..Len(EstablishOrder)} |->
        CHOOSE k \in 1..Len(EstablishOrder) : EstablishOrder[k] = f]

\* The calls of the log that are steps of EstablishOrder.
StepsDone == SelectSeq(log, LAMBDA e : e.f \in DOMAIN StepNo)

PinsVersion(e) ==
    e.f \in {"mbedtls_ssl_conf_max_version", "mbedtls_ssl_conf_min_version"}
        => e.a = MBEDTLS_SSL_MAJOR_VERSION_3
           /\ e.b = MBEDTLS_SSL_MINOR_VERSION_3

\* C13: establish runs its steps in the order TCP connect, configuration
\* defaults, maximum and minimum version pinned to 3/3, RNG and debug
\* callbacks, auth extra, ssl setup, set bio, handshake: each step comes
\* right after the one before it, which answered 0 (the handshake may
\* follow a handshake that answered WANT_READ or WANT_WRITE), so the
\* handshake is attempted only after every earlier step answered 0 and no
\* step follows a failure.
C13_EstablishStepOrder ==
    op = "Establish" =>
        LET d == StepsDone
        IN  /\ d # <<>> => d[1].f = EstablishOrder[1]
            /\ \A i \in 1..Len(d) : PinsVersion(d[i])
            /\ \A i \in 1..(Len(d) - 1) :
                   \/ /\ StepNo[d[i + 1].f] = StepNo[d[i].f] + 1
                      /\ d[i].r = 0
                   \/ /\ d[i].f = "mbedtls_ssl_handshake"
                      /\ d[i + 1].f = "mbedtls_ssl_handshake"
                      /\ d[i].r \in WantCodes
            /\ pc = "handshake" =>
                   /\ data[h].min_ver = data[h].max_ver
                   /\ data[h].max_ver = <<MBEDTLS_SSL_MAJOR_VERSION_3,
                                          MBEDTLS_SSL_MINOR_VERSION_3>>
                   /\ data[h].rng /\ data[h].dbg /\ data[h].auth
                   /\ data[h].bio

\* Establish returned after mbedtls_ssl_setup failed: the seven steps
\* before it ran in order and nothing of the order ran after it.
C13_Witness ==
    /\ Returned("Establish")
    /\ Len(StepsDone) = 8
    /\ StepsDone[8].f = "mbedtls_ssl_setup"
    /\ StepsDone[8].r # 0

(* ------------------------------- C14 ----------------------------------- *)
\* The socket() calls of the log, in order, and the address of each.
SocketCalls == SelectSeq(log, LAMBDA e : e.f = "socket")

\* The descriptors that are open and that no handle of the caller owns:
\* the candidate sockets of the establish under way.
CandidateFds == OpenFds \ OwnedFds

Resolved ==
    Called("getaddrinfo") /\ LastRet("getaddrinfo") = 0

\* What mbedtls_net_connect_timeout is to return, read from the calls it
\* made.
ConnectOutcome ==
    IF ~Resolved \/ SocketCalls = <<>>
    THEN MBEDTLS_ERR_NET_UNKNOWN_HOST
    ELSE IF LastCall.f = "connect" /\ LastCall.r = 0
    THEN 0
    ELSE IF LastCall.f = "socket"
    THEN MBEDTLS_ERR_NET_SOCKET_FAILED
    ELSE MBEDTLS_ERR_NET_CONNECT_FAILED

\* C14: mbedtls_net_connect_timeout tries the resolved addresses in order
\* and stops at the first whose socket is created and connected, returning
\* 0 with ctx->fd that socket; at most one of its sockets is open at any
\* moment; when no address connects it has tried every address and returns
\* UNKNOWN_HOST if the resolution failed or the list was empty, and
\* otherwise the failure code of the last attempt.
C14_ConnectFirstAddressThatAnswers ==
    (op = "Establish" /\ pc \in {"addr_loop", "setsockopt", "connect",
                                 "connected"}) =>
        /\ Cardinality(CandidateFds) <= 1
        /\ \A i \in 1..Len(SocketCalls) : SocketCalls[i].a = i
        /\ \A i \in Idx("connect") :
               /\ log[i].b = Len(SelectSeq(SubSeq(log, 1, i),
                                           LAMBDA e : e.f = "socket"))
               /\ log[i].r = 0 => i = Len(log) /\ pc = "connected"
        /\ pc = "connected" =>
               /\ ret = ConnectOutcome
               /\ ret = 0 =>
                      /\ data[h].fd = LastCall.a
                      /\ CandidateFds = {data[h].fd}
               /\ ret # 0 =>
                      /\ CandidateFds = {}
                      /\ Resolved =>
                             Len(SocketCalls) =
                                 log[CHOOSE i \in Idx("getaddrinfo") :
                                         TRUE].a

\* The second address connected after the first had refused.
C14_Witness ==
    /\ op = "Establish"
    /\ pc = "connected"
    /\ ret = 0
    /\ LastCall.b = 2
    /\ \E i \in Idx("connect") : log[i].b = 1 /\ log[i].r # 0

(* ------------------------------- C15 ----------------------------------- *)
\* mbedtls_net_connect_timeout is about to hand a connected socket back.
HandsBackConnected ==
    op = "Establish" /\ pc = "connected" /\ ret = 0

\* C15 as the spec states it: every socket handed back as connected carries
\* the send timeout, that is, the setsockopt(SO_SNDTIMEO) made on it
\* answered 0.
C15_ConnectedSocketCarriesTimeout ==
    HandsBackConnected =>
        \E i \in Idx("setsockopt") :
            /\ log[i].a = data[h].fd
            /\ i = Len(log) - 1
            /\ log[i].b = SEND_TIMEOUT_SECONDS
            /\ log[i].r = 0

\* C15 as the code has it: on every candidate socket the send timeout of
\* SEND_TIMEOUT_SECONDS is attempted right after socket() returned it and
\* right before connect() is called on it, and connect() is called whatever
\* setsockopt answered; the socket handed back carries the timeout only if
\* that setsockopt answered 0.
C15_TimeoutAttemptedBeforeConnect ==
    (op = "Establish" /\ pc \in {"addr_loop", "setsockopt", "connect",
                                 "connected"}) =>
        /\ \A i \in Idx("connect") :
               /\ i >= 3
               /\ log[i - 1].f = "setsockopt"
               /\ log[i - 1].a = log[i].a
               /\ log[i - 1].b = SEND_TIMEOUT_SECONDS
               /\ log[i - 2].f = "socket"
               /\ log[i - 2].r = log[i].a
        /\ \A i \in Idx("setsockopt") :
               IF i = Len(log) THEN pc = "connect"
               ELSE log[i + 1].f = "connect" /\ log[i + 1].a = log[i].a
        /\ \A i \in Opened :
               IF i = Len(log) THEN pc = "setsockopt"
               ELSE log[i + 1].f = "setsockopt" /\ log[i + 1].a = log[i].r

\* A socket is handed back as connected although setting its send timeout
\* failed.
C15_Witness ==
    /\ HandsBackConnected
    /\ log[Len(log) - 1].f = "setsockopt"
    /\ log[Len(log) - 1].a = data[h].fd
    /\ log[Len(log) - 1].r # 0

(* ------------------------------- C16 ----------------------------------- *)
\* The mbedtls_ssl_read or mbedtls_ssl_write calls of the log, in order:
\* a is the offset into the buffer, b the size asked for, r the answer.
IoCalls ==
    SelectSeq(log, LAMBDA e : e.f \in {"mbedtls_ssl_read",
                                       "mbedtls_ssl_write"})

\* The byte counter of the loop under way.
Count == IF op = "Read" THEN readLen ELSE writtenLen

\* C16: for len > 0 and a library that answers at most the size asked for,
\* every call of the read loop and of the write loop is made with
\* 0 <= count < len, at offset count, for exactly len - count bytes; count
\* is the sum of the positive answers and never exceeds len; and no call is
\* made after a non-positive answer or once count = len.
C16_LoopsFillContiguously ==
    (op \in {"Read", "Write"} /\ len > 0) =>
        LET c == IoCalls
        IN  /\ \A i \in 1..Len(c) :
                   /\ c[i].r <= c[i].b
                   /\ c[i].a = SumPos([k \in 1..(i - 1) |-> c[k].r])
                   /\ 0 <= c[i].a /\ c[i].a < len
                   /\ c[i].b = len - c[i].a
                   /\ i < Len(c) => c[i].r > 0
            /\ Count = SumPos([k \in 1..Len(c) |-> c[k].r])
            /\ 0 <= Count /\ Count <= len
            /\ (Count = len \/ (c # <<>> /\ c[Len(c)].r <= 0)) =>
                   ~ENABLED Read_Step /\ ~ENABLED Write_Step

\* A write of two bytes that the library took one byte at a time.
C16_Witness ==
    /\ Returned("Write")
    /\ len = 2
    /\ [k \in 1..Len(IoCalls) |-> IoCalls[k].a] = <<0, 1>>
    /\ [k \in 1..Len(IoCalls) |-> IoCalls[k].r] = <<1, 1>>
    /\ result = 2

(* ------------------------------- C17 ----------------------------------- *)
\* C17: for every len <= 0, HAL_iTLS_Read and HAL_iTLS_Write call neither
\* mbedtls_ssl_read nor mbedtls_ssl_write and return 0, whatever earlier
\* calls returned.
C17_NonPositiveLenIsNoOp ==
    ((Returned("Read") \/ Returned("Write")) /\ len <= 0) =>
        IoCalls = <<>> /\ result = 0

====
